---- MODULE Spec2Model ----
(***************************************************************************)
(* A model of PMBR.py, the joystick task of the PMBR experiment: the main  *)
(* routine (parameter dialog, parameter log), show_task (instructions,     *)
(* practice phase, block/trial loop, trial log) and the polling functions  *)
(* it calls (send_trigger, TI_countdown, wait_b_pressed,                   *)
(* wait_joystick_pushed, buffer_joystick).                                 *)
(*                                                                         *)
(* Time is counted in ticks of 0.05 s.  Joystick axis values are scaled by *)
(* 1000 (the push threshold -0.9 is -900, the onset delta 0.005 is 5).     *)
(* The jittered delays are counted in units of 0.01 s.                     *)
(* The data port is taken to be all low when the program starts.           *)
(***************************************************************************)
EXTENDS Integers, Sequences, FiniteSets, TLC

(***************************************************************************)
(* Bounds of the model.                                                    *)
(***************************************************************************)
\* program runs (sessions) modelled one after the other
MaxSessions == 2
\* key presses the event buffer holds
MaxKeys == 1
\* the longest countdown, in ticks, of a function called on its own
MaxDuration == 3
\* the ticks by which a frame flip can return after a countdown has expired
FlipOvershoot == 1
\* the largest number of trials per block for which the designation is drawn
MaxIdxTrials == 14
\* the longest countdown, in seconds, of TI_countdown called on its own
MaxSeconds == 25

(***************************************************************************)
(* Program constants, in ticks of 0.05 s where they are times.             *)
(***************************************************************************)
\* wait_b_pressed(joy1, press_message, 0.6, win)
PressWindow == 12
\* if RT_press > 0.05
RespThreshold == 1
\* if RT_press == 1
NoRespValue == 20
\* wait_joystick_pushed(..., 1, ...) / duration=1
JoyWindow == 20
\* time.sleep(0.05) in send_trigger
PulseTicks == 1
\* nb_trials = 10 in a practice run
PracticeTrials == 10
\* for i in range(3): press message trials of the practice phase
PracticePressTrials == 3
\* for i in range(4): joystick test of the practice phase
PracticeJoyTrials == 4
\* TI_countdown(win, t=5), the ramp-up period, in seconds
RampUpSeconds == 5
\* TI_countdown(win, t=25), the break period, in seconds
BreakSeconds == 25
\* params['Randomization'] = 1234
Randomization == 1234
\* joy_right_y_axis < -0.9, scaled by 1000 and negated
PushThreshold == 900
\* np.abs(joy_right_y_axis - last_value_right) > 0.005, scaled by 1000
OnsetDelta == 5
\* np.linspace(0.65, 0.85, nb_trials), in 0.01 s
Jitter1Lo == 65
Jitter1Hi == 85
\* np.linspace(1, 2, nb_trials), in 0.01 s
Jitter2Lo == 100
Jitter2Hi == 200

Pins == 2..9

(***************************************************************************)
(* Python values of mixed type (numbers, strings, None, lists) as they are *)
(* stored in the log dictionary and written to the CSV files.              *)
(***************************************************************************)
Num(n) == [tag |-> "num", num |-> n, str |-> "", list |-> <<>>]
Str(s) == [tag |-> "str", num |-> 0, str |-> s, list |-> <<>>]
NoneV == [tag |-> "none", num |-> 0, str |-> "", list |-> <<>>]
List(l) == [tag |-> "list", num |-> 0, str |-> "", list |-> l]
NA == Str("NA")

(***************************************************************************)
(* A Python dict: a sequence of <<key, value>> in insertion order.         *)
(***************************************************************************)
DictKeys(d) == [i \in 1..Len(d) |-> d[i][1]]
DictValues(d) == [i \in 1..Len(d) |-> d[i][2]]
HasKey(d, k) == \E i \in 1..Len(d) : d[i][1] = k
DictGet(d, k) == d[CHOOSE i \in 1..Len(d) : d[i][1] = k][2]
\* d[k] = v: an existing key keeps its place, a new key goes last
\* (dict is bound to the value of d, which is evaluated once)
DictSet(d, k, v) ==
    CHOOSE r \in {IF HasKey(dict, k)
                  THEN [n \in 1..Len(dict) |->
                           IF dict[n][1] = k THEN <<k, v>> ELSE dict[n]]
                  ELSE Append(dict, <<k, v>>) : dict \in {d}} : TRUE
\* dict.fromkeys(ks): every key of ks with the value None
FromKeys(ks) == [i \in 1..Len(ks) |-> <<ks[i], NoneV>>]

(***************************************************************************)
(* CSV lines.  A header holds the field names; a row holds the values in   *)
(* the order of the writer's field names (cols records that order).        *)
(***************************************************************************)
HeaderLine(d) == [kind |-> "header", cols |-> DictKeys(d), vals |-> <<>>]
RowLine(d) == [kind |-> "row", cols |-> DictKeys(d), vals |-> DictValues(d)]
Field(line, k) == line.vals[CHOOSE i \in 1..Len(line.cols) : line.cols[i] = k]
HasField(line, k) == \E i \in 1..Len(line.cols) : line.cols[i] = k

(***************************************************************************)
(* State.                                                                  *)
(***************************************************************************)
VARIABLES
    \* the disk: CSV files by path (DOMAIN files = the files that exist) and
    \* the pickled settings by file name
    files, pickles,
    \* program runs started so far, and the number of rows that the run file
    \* of the session held when the session began
    sessions, rows0,
    \* where control is, and how show_task ended ("0", "-1", or the exception)
    pc, ret,
    \* get_parameters and the main routine
    param_settings, params,
    \* psychopy's event buffer, and whether escape was pressed during show_task
    keys, escHit,
    \* the parallel port's data pins, and the pin and continuation of the
    \* send_trigger call in progress; the pulses sent on the block pins 9 and
    \* 3 by the program run in progress
    pins, trig_pin, trig_ret, block_pulses,
    \* locals of show_task
    log, block, trial, nb_blocks, nb_trials, idcs, idx_right, idx_left, i,
    \* the jitters of the block, in 0.01 s, and the jitter delays that the
    \* trial in progress has waited
    jitters_1, jitters_2, waited,
    RT_press, RT_start_right, RT_start_left, RT_end_right, RT_end_left,
    right_positions, left_positions, time,
    \* frames of wait_b_pressed, wait_joystick_pushed and TI_countdown
    wb, wj, ti

diskVars == <<files, pickles>>
paramVars == <<param_settings, params>>
keyVars == <<keys, escHit>>
pinVars == <<pins, trig_pin, trig_ret, block_pulses>>
jitterVars == <<jitters_1, jitters_2, waited>>
loopVars == <<block, trial, nb_blocks, nb_trials, idcs, idx_right, idx_left, i>>
trialVars == <<RT_press, RT_start_right, RT_start_left, RT_end_right, RT_end_left,
               right_positions, left_positions, time>>
frameVars == <<wb, wj, ti>>
vars == <<files, pickles, sessions, rows0, pc, ret, param_settings, params, keys, escHit,
          pins, trig_pin, trig_ret, block_pulses, log, block, trial, nb_blocks,
          nb_trials, idcs, idx_right, idx_left, i, jitters_1, jitters_2, waited, RT_press, RT_start_right, RT_start_left,
          RT_end_right, RT_end_left, right_positions, left_positions, time,
          wb, wj, ti>>

(***************************************************************************)
(* The environment: keys, the joystick button, frame flips.                *)
(***************************************************************************)
Keys == {"escape", "space"}
\* the keys pressed while the program waits or sleeps once
KeyBursts == {<<>>, <<"escape">>, <<"space">>}
\* what event.waitKeys(keyList=['space','5','esc','escape']) can return
WaitKeysResults == {<<"escape">>, <<"space">>, <<"space", "escape">>}
\* the event buffer is modelled up to MaxKeys pending keys
Fits(burst) == burst = <<>> \/ Len(keys) + Len(burst) <= MaxKeys
HasEscape(burst) == \E n \in 1..Len(burst) : burst[n] = "escape"
\* a variant in which escape counts wherever it is among the pending keys
EscapeAnywhere(key) == \E n \in 1..Len(key) : key[n] = "escape"
\* key and key[0] in ['escape','esc']
EscapeFirst(key) == Len(key) > 0 /\ key[1] = "escape"
\* the elapsed times of a countdown of the given duration at which a frame
\* flip of a session returns while the button is awaited
PollInstants(duration) == {1, duration}
\* ... and while the joysticks are awaited
JoyPollInstants(duration) == {duration}

(***************************************************************************)
(* get_parameters and the parameter file.                                  *)
(***************************************************************************)
LoadedPickle == "lastParams_PMBR_.pickle"
SavedPickle == "lastParams_PMBR.pickle"
\* param_settings = [1,1,1,10,80, 'Standard']
DefaultSettings == <<1, 1, 1, 10, 80, "Standard">>
\* what the experimenter enters in the dialog of a session: ID, Session,
\* Run, Number of blocks, Number of trials, Set
SettingsChoices ==
    {<<1, 1, 1, 1, 2, "Standard">>, <<1, 1, 2, 2, 1, "Standard">>,
     <<2, 1, 1, 1, 1, "Standard">>, <<1, 1, 1, 1, 1, "Practice">>}

\* tools.filetools.fromFile(...) in try / except
fromFile(name) == IF name \in DOMAIN pickles THEN pickles[name] ELSE DefaultSettings
\* tools.filetools.toFile(name, settings)
toFile(name, settings) == (name :> settings) @@ pickles

ParamsDict(s) ==
    << <<"ID", Num(s[1])>>, <<"Session", Num(s[2])>>, <<"Run", Num(s[3])>>,
       <<"NbBlocks", Num(s[4])>>, <<"NbTrials", Num(s[5])>>, <<"Set", Str(s[6])>> >>

\* the frames of functions that are not being called
WBIdle == [duration |-> 0, timer |-> 0, ret |-> "none", RT |-> 0, outcome |-> "idle",
           polls |-> <<>>]
\* output = {'RT_end_right': RT, 'RT_end_left': RT, 'RT_start_right': RT,
\*           'RT_start_left': RT, 'right_positions':[], 'left_positions':[], 'time':[]}
Output0 == [RT_end_right |-> NoneV, RT_end_left |-> NoneV, RT_start_right |-> NoneV,
            RT_start_left |-> NoneV, right_positions |-> List(<<>>),
            left_positions |-> List(<<>>), time |-> List(<<>>)]
WJIdle == [duration |-> 0, timer |-> 0, ret |-> "none", correct_rect |-> "none",
           flag_RT_start |-> FALSE, last_value_right |-> 0, last_value_left |-> 0,
           RT |-> NoneV, output |-> Output0, right_positions |-> <<>>,
           left_positions |-> <<>>, time |-> <<>>, pushed |-> "none",
           result |-> "idle", polls |-> 0, escaped |-> FALSE]
TIIdle == [t |-> 0, ret |-> "none", result |-> "idle", escaped |-> FALSE]

\* the locals of the main routine and of show_task before they are assigned
CallerIdle ==
    /\ ret = "none"
    /\ param_settings = DefaultSettings
    /\ params = <<>>
    /\ trig_pin = 0
    /\ trig_ret = "none"
    /\ block_pulses = <<>>
    /\ jitters_1 = <<>>
    /\ jitters_2 = <<>>
    /\ waited = 0
    /\ log = <<>>
    /\ block = 0
    /\ trial = 0
    /\ nb_blocks = 0
    /\ idcs = <<>>
    /\ idx_right = <<>>
    /\ idx_left = <<>>
    /\ i = 0
    /\ RT_press = 0
    /\ RT_start_right = Num(0)
    /\ RT_start_left = Num(0)
    /\ RT_end_right = Num(0)
    /\ RT_end_left = Num(0)
    /\ right_positions = List(<<>>)
    /\ left_positions = List(<<>>)
    /\ time = Num(0)

\* the state of a process that is not running
ProcessIdle ==
    /\ CallerIdle
    /\ ti = TIIdle

LocalsIdle ==
    /\ ProcessIdle
    /\ keys = <<>>
    /\ escHit = FALSE
    /\ nb_trials = 0
    /\ wb = WBIdle
    /\ wj = WJIdle

\* no file exists, no program has run, the pins of the port are low
MachineInit ==
    /\ files = <<>>
    /\ pickles = <<>>
    /\ sessions = 0
    /\ rows0 = 0
    /\ pins = [p \in Pins |-> 0]

\* the process exits: its state is lost
LocalsReset ==
    /\ ret' = "none"
    /\ param_settings' = DefaultSettings
    /\ params' = <<>>
    /\ keys' = <<>>
    /\ escHit' = FALSE
    /\ trig_pin' = 0
    /\ trig_ret' = "none"
    /\ block_pulses' = <<>>
    /\ jitters_1' = <<>>
    /\ jitters_2' = <<>>
    /\ waited' = 0
    /\ log' = <<>>
    /\ block' = 0
    /\ trial' = 0
    /\ nb_blocks' = 0
    /\ nb_trials' = 0
    /\ idcs' = <<>>
    /\ idx_right' = <<>>
    /\ idx_left' = <<>>
    /\ i' = 0
    /\ RT_press' = 0
    /\ RT_start_right' = Num(0)
    /\ RT_start_left' = Num(0)
    /\ RT_end_right' = Num(0)
    /\ RT_end_left' = Num(0)
    /\ right_positions' = List(<<>>)
    /\ left_positions' = List(<<>>)
    /\ time' = Num(0)
    /\ wb' = WBIdle
    /\ wj' = WJIdle
    /\ ti' = TIIdle

Init ==
    /\ MachineInit
    /\ pc = "off"
    /\ LocalsIdle

\* the program is started: get_parameters loads the last settings
StartProgram ==
    /\ pc = "off"
    /\ sessions < MaxSessions
    /\ sessions' = sessions + 1
    /\ rows0' = rows0
    /\ param_settings' = fromFile(LoadedPickle)
    /\ pc' = "dialog"
    /\ UNCHANGED <<diskVars, ret, params, keyVars, pinVars, jitterVars, log,
                   loopVars, trialVars, frameVars>>

\* the dialog is confirmed with the settings s: they are saved and returned
DialogOK(s) ==
    /\ pc = "dialog"
    /\ param_settings' = s
    /\ pickles' = toFile(SavedPickle, s)
    /\ params' = ParamsDict(s)
    /\ pc' = "main"
    /\ UNCHANGED <<files, sessions, rows0, jitterVars, ret, keyVars, pinVars, log, loopVars, trialVars,
                   frameVars>>

\* the dialog is cancelled: core.quit()
DialogCancel ==
    /\ pc = "dialog"
    /\ param_settings' = DefaultSettings
    /\ pc' = "off"
    /\ UNCHANGED <<diskVars, sessions, rows0, jitterVars, ret, params, keyVars, pinVars, log, loopVars,
                   trialVars, frameVars>>

(***************************************************************************)
(* The main routine: the parameter log, then show_task.                    *)
(***************************************************************************)
\* 'Data\\Subject_<ID>\\S_<ID>_PMBR_task_params.csv'
params_path(p) == <<DictGet(p, "ID").num, "task_params">>
\* a variant in which every participant shares one run file
run_path_shared(p) == <<1, "runs">>
\* 'Data\\Subject_<ID>\\S_<ID>_PMBR_runs.csv'
run_path(p) == <<DictGet(p, "ID").num, "runs">>

\* the number of rows of the file at path on the disk f, 0 if there is none
RowCountIn(f, path) ==
    IF path \in DOMAIN f
    THEN Cardinality({n \in 1..Len(f[path]) : f[path][n].kind = "row"})
    ELSE 0

\* a variant that writes the header on every append
AppendRowWithHeader(path, d) ==
    IF path \in DOMAIN files
    THEN [files EXCEPT ![path] = @ \o <<HeaderLine(d), RowLine(d)>>]
    ELSE (path :> <<HeaderLine(d), RowLine(d)>>) @@ files
\* os.path.exists, then open(path, 'a+'), writeheader() for a new file and
\* writerow(d)
AppendRow(path, d) ==
    IF path \in DOMAIN files
    THEN [files EXCEPT ![path] = Append(@, RowLine(d))]
    ELSE (path :> <<HeaderLine(d), RowLine(d)>>) @@ files

MainParams(p) ==
    LET p1 == DictSet(p, "Randomization", Num(Randomization))
        p2 == DictSet(p1, "Set",
                      IF DictGet(p1, "Set") = Str("Standard") THEN Str("1")
                      ELSE IF DictGet(p1, "Set") = Str("Practice") THEN Str("P")
                      ELSE DictGet(p1, "Set"))
    IN DictSet(p2, "TimeStarted", Str("now"))

\* lines 842-892: the parameter row is logged, the window is created and
\* show_task draws its instructions
MainRoutine ==
    /\ pc = "main"
    /\ params' = MainParams(params)
    /\ files' = AppendRow(params_path(params'), params')
    /\ rows0' = RowCountIn(files, run_path(params'))
    /\ pc' = "instructions"
    /\ UNCHANGED <<pickles, sessions, jitterVars, ret, param_settings, keyVars, pinVars, log,
                   loopVars, trialVars, frameVars>>

Practice == DictGet(params, "Set") = Str("P")

\* show_task has ended: win.close() and the process exits
Close ==
    /\ pc = "ended"
    /\ pc' = "off"
    /\ LocalsReset
    /\ rows0' = 0
    /\ UNCHANGED <<diskVars, sessions, pins>>

(***************************************************************************)
(* send_trigger.                                                           *)
(***************************************************************************)
\* a variant that never lowers a pin
setPinHigh(pin, state) == [pins EXCEPT ![pin] = 1]
\* parallel.setPin(pin, state)
setPin(pin, state) == [pins EXCEPT ![pin] = state]

\* the pins of send_trigger(9) #block start and send_trigger(3) #end of block
BlockPins == {9, 3}

\* a call send_trigger(pin) that continues at cont: parallel.setPin(pin,1)
send_trigger(pin, cont) ==
    /\ pins' = setPin(pin, 1)
    /\ block_pulses' = IF pin \in BlockPins THEN Append(block_pulses, pin)
                       ELSE block_pulses
    /\ trig_pin' = pin
    /\ trig_ret' = cont
    /\ pc' = "send_trigger"

\* time.sleep(0.05), parallel.setPin(pin,0) and the return
SendTriggerLow(burst) ==
    /\ pc = "send_trigger"
    /\ Fits(burst)
    /\ pins' = setPin(trig_pin, 0)
    /\ trig_pin' = 0
    /\ trig_ret' = "none"
    /\ block_pulses' = block_pulses
    /\ pc' = trig_ret
    /\ keys' = keys \o burst
    /\ escHit' = (escHit \/ HasEscape(burst))
    /\ UNCHANGED <<diskVars, sessions, rows0, jitterVars, ret, paramVars, log, loopVars, trialVars,
                   frameVars>>

(***************************************************************************)
(* TI_countdown.                                                           *)
(***************************************************************************)
\* lines 131-137: the number t is shown and the countdown starts
TIEnter(t, cont) == [t |-> t, ret |-> cont, result |-> "running", escaped |-> FALSE]

\* one more second has elapsed: the number is decreased and the keys are read
\* (with t = 1 this happens only if the timer passes 0 between the test of
\* the loop and the test of the if)
TI_Tick(burst) ==
    /\ pc = "TI_countdown"
    /\ ti.t > 0
    /\ Fits(burst)
    /\ keys' = <<>>
    /\ escHit' = (escHit \/ HasEscape(burst))
    /\ IF EscapeFirst(keys \o burst)
       THEN /\ pc' = ti.ret
            /\ ti' = [ti EXCEPT !.t = @ - 1, !.result = "-1",
                                !.escaped = @ \/ HasEscape(burst)]
       ELSE /\ pc' = pc
            /\ ti' = [ti EXCEPT !.t = @ - 1, !.escaped = @ \/ HasEscape(burst)]
    /\ UNCHANGED <<diskVars, sessions, rows0, jitterVars, ret, paramVars, pinVars, log, loopVars,
                   trialVars, wb, wj>>

\* the countdown expires during the last second
TI_Expire(burst) ==
    /\ pc = "TI_countdown"
    /\ ti.t <= 1
    /\ Fits(burst)
    /\ keys' = keys \o burst
    /\ escHit' = (escHit \/ HasEscape(burst))
    /\ pc' = ti.ret
    /\ ti' = [ti EXCEPT !.result = "None", !.escaped = @ \/ HasEscape(burst)]
    /\ UNCHANGED <<diskVars, sessions, rows0, jitterVars, ret, paramVars, pinVars, log, loopVars,
                   trialVars, wb, wj>>

(***************************************************************************)
(* wait_b_pressed.                                                         *)
(***************************************************************************)
\* timer = core.CountdownTimer(duration); RT=duration
WBEnter(duration, cont) ==
    [duration |-> duration, timer |-> duration, ret |-> cont, RT |-> duration,
     outcome |-> "running", polls |-> <<>>]

\* one iteration of the loop: the flip returns when e ticks have elapsed, the
\* button is read, then the keys
WB_Poll(e, button, burst) ==
    /\ pc = "wait_b_pressed"
    /\ wb.timer > 0
    /\ e > wb.duration - wb.timer
    /\ Fits(burst)
    /\ escHit' = (escHit \/ HasEscape(burst))
    /\ LET pending == keys \o burst
           getTime == wb.duration - e
           seen == [elapsed |-> e, button |-> button, key |-> pending]
       IN IF button
          THEN /\ wb' = [wb EXCEPT !.timer = getTime, !.RT = wb.duration - getTime,
                                   !.outcome = "pressed", !.polls = Append(@, seen)]
               /\ keys' = pending
               /\ pc' = wb.ret
          ELSE /\ keys' = <<>>
               /\ IF EscapeFirst(pending)
                  THEN /\ wb' = [wb EXCEPT !.timer = getTime, !.RT = -1,
                                           !.outcome = "escape",
                                           !.polls = Append(@, seen)]
                       /\ pc' = wb.ret
                  ELSE /\ wb' = [wb EXCEPT !.timer = getTime,
                                           !.polls = Append(@, seen)]
                       /\ pc' = pc
    /\ UNCHANGED <<diskVars, sessions, rows0, jitterVars, ret, paramVars, pinVars, log, loopVars,
                   trialVars, wj, ti>>

\* the countdown has expired: return RT
WB_Timeout ==
    /\ pc = "wait_b_pressed"
    /\ wb.timer <= 0
    /\ wb' = [wb EXCEPT !.outcome = "timeout"]
    /\ pc' = wb.ret
    /\ UNCHANGED <<diskVars, sessions, rows0, jitterVars, ret, paramVars, keyVars, pinVars, log,
                   loopVars, trialVars, wj, ti>>

(***************************************************************************)
(* wait_joystick_pushed.  A joystick reading joy is <<right y, left y>>;   *)
(* the x axes read 0.                                                      *)
(***************************************************************************)
Abs(x) == IF x < 0 THEN -x ELSE x

\* lines 233-245: the locals, the countdown and the initial joystick values
WJEnter(duration, correct_rect, cont, joy) ==
    [duration |-> duration, timer |-> duration, ret |-> cont,
     correct_rect |-> correct_rect, flag_RT_start |-> FALSE,
     last_value_right |-> joy[1], last_value_left |-> joy[2], RT |-> NoneV,
     output |-> Output0, right_positions |-> <<>>, left_positions |-> <<>>,
     time |-> <<>>, pushed |-> "none", result |-> "running", polls |-> 0,
     escaped |-> FALSE]

\* a variant that takes any reading for a movement
MovedAlways(y, last_value) == TRUE
\* np.abs(joy_right_y_axis - last_value_right) > 0.005
Moved(y, last_value) == Abs(y - last_value) > OnsetDelta

\* lines 263-278: movement onset of the cued joystick, then the samples
WJSample(f, joy, getTime) ==
    LET startR == /\ Moved(joy[1], f.last_value_right)
                  /\ ~f.flag_RT_start
                  /\ f.correct_rect = "right"
        flag1 == f.flag_RT_start \/ startR
        startL == /\ Moved(joy[2], f.last_value_left)
                  /\ ~flag1
                  /\ f.correct_rect = "left"
        out1 == IF startR
                THEN [f.output EXCEPT !.RT_start_right = Num(f.duration - getTime)]
                ELSE f.output
        out2 == IF startL
                THEN [out1 EXCEPT !.RT_start_left = Num(f.duration - getTime)]
                ELSE out1
    IN [f EXCEPT !.timer = getTime,
                 !.output = out2,
                 !.flag_RT_start = flag1 \/ startL,
                 !.last_value_right = joy[1],
                 !.last_value_left = joy[2],
                 !.right_positions = Append(@, <<0, joy[1]>>),
                 !.left_positions = Append(@, <<0, joy[2]>>),
                 !.time = Append(@, getTime),
                 !.polls = @ + 1]

\* a variant in which the left joystick is tested first
PushedLeftFirst(joy) ==
    IF joy[2] < -PushThreshold THEN "left"
    ELSE IF joy[1] < -PushThreshold THEN "right"
    ELSE "none"
\* if joy_right_y_axis<-0.9: ... elif joy_left_y_axis<-0.9: ...
Pushed(joy) ==
    IF joy[1] < -PushThreshold THEN "right"
    ELSE IF joy[2] < -PushThreshold THEN "left"
    ELSE "none"

\* one iteration of the outer loop: the flip returns when e ticks have
\* elapsed, the joysticks are read, then (if none is pushed) the keys
WJ_Poll(e, joy, burst) ==
    /\ pc = "wait_joystick_pushed"
    /\ wj.timer > 0
    /\ e > wj.duration - wj.timer
    /\ Fits(burst)
    /\ escHit' = (escHit \/ HasEscape(burst))
    /\ LET getTime == wj.duration - e
           pending == keys \o burst
           f == [WJSample(wj, joy, getTime) EXCEPT
                    !.escaped = @ \/ HasEscape(burst)]
       IN IF Pushed(joy) = "right"
          THEN \* right joystick pushed
               /\ keys' = pending
               /\ IF f.correct_rect = "right"
                  THEN /\ wj' = [f EXCEPT !.RT = Num(f.duration - getTime),
                                          !.pushed = "right"]
                       /\ send_trigger(7, "wj_pushed")
                  ELSE /\ wj' = [f EXCEPT !.pushed = "right"]
                       /\ send_trigger(8, "wj_pushed")
          ELSE IF Pushed(joy) = "left"
          THEN \* left joystick pushed
               /\ keys' = pending
               /\ IF f.correct_rect = "right"
                  THEN /\ wj' = [f EXCEPT !.pushed = "left"]
                       /\ send_trigger(6, "wj_pushed")
                  ELSE /\ wj' = [f EXCEPT !.RT = Num(f.duration - getTime),
                                          !.pushed = "left"]
                       /\ send_trigger(5, "wj_pushed")
          ELSE /\ keys' = <<>>
               /\ UNCHANGED pinVars
               /\ IF EscapeFirst(pending)
                  THEN /\ wj' = [f EXCEPT !.result = "abort"]
                       /\ pc' = wj.ret
                  ELSE /\ wj' = f
                       /\ pc' = pc
    /\ UNCHANGED <<diskVars, sessions, rows0, jitterVars, ret, paramVars, log, loopVars, trialVars,
                   wb, ti>>

\* after send_trigger: the 0.05 s of the pulse have elapsed; draw and flip
WJ_Pushed ==
    /\ pc = "wj_pushed"
    /\ wj' = [wj EXCEPT !.timer = @ - PulseTicks]
    /\ pc' = "wj_inner"
    /\ UNCHANGED <<diskVars, sessions, rows0, jitterVars, ret, paramVars, keyVars, pinVars, log,
                   loopVars, trialVars, wb, ti>>

\* one iteration of the inner loop: the joysticks are sampled, then the flip
\* returns when e ticks have elapsed; the keys are not read
WJ_Inner(e, joy, burst) ==
    /\ pc = "wj_inner"
    /\ wj.timer > 0
    /\ e > wj.duration - wj.timer
    /\ Fits(burst)
    /\ keys' = keys \o burst
    /\ escHit' = (escHit \/ HasEscape(burst))
    /\ wj' = [wj EXCEPT !.right_positions = Append(@, <<0, joy[1]>>),
                        !.left_positions = Append(@, <<0, joy[2]>>),
                        !.time = Append(@, wj.timer),
                        !.timer = wj.duration - e,
                        !.polls = @ + 1,
                        !.escaped = @ \/ HasEscape(burst)]
    /\ pc' = pc
    /\ UNCHANGED <<diskVars, sessions, rows0, jitterVars, ret, paramVars, pinVars, log, loopVars,
                   trialVars, wb, ti>>

\* the inner loop has ended: the output is filled and returned
WJ_Return ==
    /\ pc = "wj_inner"
    /\ wj.timer <= 0
    /\ LET out == [wj.output EXCEPT !.right_positions = List(wj.right_positions),
                                    !.left_positions = List(wj.left_positions),
                                    !.time = List(wj.time)]
       IN wj' = [wj EXCEPT
                    !.output = IF wj.pushed = "right"
                               THEN [out EXCEPT !.RT_end_right = wj.RT]
                               ELSE [out EXCEPT !.RT_end_left = wj.RT],
                    !.result = "output"]
    /\ pc' = wj.ret
    /\ UNCHANGED <<diskVars, sessions, rows0, jitterVars, ret, paramVars, keyVars, pinVars, log,
                   loopVars, trialVars, wb, ti>>

\* the countdown expired with no joystick pushed: return output
WJ_Timeout ==
    /\ pc = "wait_joystick_pushed"
    /\ wj.timer <= 0
    /\ wj' = [wj EXCEPT !.result = "output"]
    /\ pc' = wj.ret
    /\ UNCHANGED <<diskVars, sessions, rows0, jitterVars, ret, paramVars, keyVars, pinVars, log,
                   loopVars, trialVars, wb, ti>>

(***************************************************************************)
(* show_task: instructions and the practice phase.                         *)
(***************************************************************************)
\* return value from show_task (or the exception that ends it)
Return(value) ==
    /\ pc' = "ended"
    /\ ret' = value

\* lines 483-497: the instructions wait for a key
Instructions(key) ==
    /\ pc = "instructions"
    /\ keys' = <<>>
    /\ escHit' = (escHit \/ HasEscape(key))
    /\ IF EscapeFirst(key)
       THEN Return("-1")
       ELSE /\ pc' = IF Practice THEN "press_test_message" ELSE "setup"
            /\ ret' = ret
    /\ UNCHANGED <<diskVars, sessions, rows0, jitterVars, paramVars, pinVars, log, loopVars, trialVars,
                   frameVars>>

\* lines 501-510: the press test message waits for a key
PressTestMessage(key) ==
    /\ pc = "press_test_message"
    /\ keys' = <<>>
    /\ escHit' = (escHit \/ HasEscape(key))
    /\ IF EscapeFirst(key)
       THEN Return("-1") /\ i' = i
       ELSE pc' = "press_trial" /\ ret' = ret /\ i' = 0
    /\ UNCHANGED <<diskVars, sessions, rows0, jitterVars, paramVars, pinVars, log, block, trial,
                   nb_blocks, nb_trials, idcs, idx_right, idx_left, trialVars,
                   frameVars>>

\* lines 513-521: a press message trial of the practice phase begins
PressTrial(burst) ==
    /\ pc = "press_trial"
    /\ Fits(burst)
    /\ keys' = keys \o burst
    /\ escHit' = (escHit \/ HasEscape(burst))
    /\ wb' = WBEnter(PressWindow, "press_trial_done")
    /\ pc' = "wait_b_pressed"
    /\ UNCHANGED <<diskVars, sessions, rows0, jitterVars, ret, paramVars, pinVars, log, loopVars,
                   trialVars, wj, ti>>

\* key = wait_b_pressed(...) has returned: the next press trial, or lines
\* 524-532, the joystick test message
PressTrialDone ==
    /\ pc = "press_trial_done"
    /\ wb' = WBIdle
    /\ i' = i + 1
    /\ pc' = IF i + 1 < PracticePressTrials THEN "press_trial" ELSE "joy_test_message"
    /\ UNCHANGED <<diskVars, sessions, rows0, jitterVars, ret, paramVars, keyVars, pinVars, log, block,
                   trial, nb_blocks, nb_trials, idcs, idx_right, idx_left, trialVars,
                   wj, ti>>

\* lines 533-541: the joystick test message waits for a key
JoyTestMessage(key) ==
    /\ pc = "joy_test_message"
    /\ keys' = <<>>
    /\ escHit' = (escHit \/ HasEscape(key))
    /\ IF EscapeFirst(key)
       THEN Return("-1") /\ i' = i
       ELSE pc' = "joy_trial" /\ ret' = ret /\ i' = 0
    /\ UNCHANGED <<diskVars, sessions, rows0, jitterVars, paramVars, pinVars, log, block, trial,
                   nb_blocks, nb_trials, idcs, idx_right, idx_left, trialVars,
                   frameVars>>

\* lines 543-561: a joystick test trial begins, right on even i, left on odd i
JoyTrial(joy, burst) ==
    /\ pc = "joy_trial"
    /\ Fits(burst)
    /\ keys' = keys \o burst
    /\ escHit' = (escHit \/ HasEscape(burst))
    /\ wj' = WJEnter(JoyWindow, IF i % 2 = 0 THEN "right" ELSE "left",
                     "joy_trial_done", joy)
    /\ pc' = "wait_joystick_pushed"
    /\ UNCHANGED <<diskVars, sessions, rows0, jitterVars, ret, paramVars, pinVars, log, loopVars,
                   trialVars, wb, ti>>

\* output = wait_joystick_pushed(...) has returned: the next joystick trial,
\* or lines 570-575, the ready message
JoyTrialDone ==
    /\ pc = "joy_trial_done"
    /\ wj' = WJIdle
    /\ i' = i + 1
    /\ pc' = IF i + 1 < PracticeJoyTrials THEN "joy_trial" ELSE "ready_message"
    /\ UNCHANGED <<diskVars, sessions, rows0, jitterVars, ret, paramVars, keyVars, pinVars, log, block,
                   trial, nb_blocks, nb_trials, idcs, idx_right, idx_left, trialVars,
                   wb, ti>>

\* lines 576-579: the ready message waits for a key
ReadyMessage(key) ==
    /\ pc = "ready_message"
    /\ keys' = <<>>
    /\ escHit' = (escHit \/ HasEscape(key))
    /\ IF EscapeFirst(key)
       THEN Return("-1")
       ELSE pc' = "setup" /\ ret' = ret
    /\ UNCHANGED <<diskVars, sessions, rows0, jitterVars, paramVars, pinVars, log, loopVars, trialVars,
                   frameVars>>

(***************************************************************************)
(* show_task: the designation of the joystick-movement trials.             *)
(***************************************************************************)
\* int(nb_trials*percentage_joystick) with percentage_joystick = 0.3; the
\* float product truncates to floor(3n/10) for every n below 2000
nb_movements(n) == (3 * n) \div 10
\* int(nb_movements/2)
Nb_right(m) == m \div 2
\* random.sample(population, k): k distinct elements in any order
IsSample(s, population, k) ==
    /\ Len(s) = k
    /\ \A a \in 1..k : s[a] \in population
    /\ \A a, b \in 1..k : a # b => s[a] # s[b]
RandomSample(population, k) ==
    {s \in [1..k -> population] : IsSample(s, population, k)}
Range(s) == {s[n] : n \in 1..Len(s)}
\* the elements of arr at the (0-based) positions in P, in the order of arr
AtPositions(arr, P) ==
    LET RECURSIVE Upto(_)
        Upto(n) == IF n = 0 THEN <<>>
                   ELSE IF (n - 1) \in P THEN Append(Upto(n - 1), arr[n])
                   ELSE Upto(n - 1)
    IN Upto(Len(arr))
\* a variant that deletes nothing
NpKeep(arr, positions) == arr
\* np.delete(arr, positions)
NpDelete(arr, positions) == AtPositions(arr, (0..(Len(arr) - 1)) \ Range(positions))
\* mask=np.zeros(len(arr),bool); mask[positions]=True; arr[mask]
NpMasked(arr, positions) == AtPositions(arr, Range(positions))

\* lines 582-595: the log dictionary and the numbers of blocks and trials
Setup ==
    /\ pc = "setup"
    /\ log' = FromKeys(<<"ID", "Session", "Run", "Trial">>)
    /\ nb_blocks' = IF Practice THEN 1 ELSE DictGet(params, "NbBlocks").num
    /\ nb_trials' = IF Practice THEN PracticeTrials ELSE DictGet(params, "NbTrials").num
    /\ pc' = "designate"
    /\ UNCHANGED <<diskVars, sessions, rows0, jitterVars, ret, paramVars, keyVars, pinVars, block, trial,
                   idcs, idx_right, idx_left, i, trialVars, frameVars>>

\* lines 597-610: sample is the drawn list of movement trials, positions the
\* drawn positions in it of the right-joystick trials
Designate(sample, positions) ==
    /\ pc = "designate"
    /\ IsSample(sample, 0..(nb_trials - 1), nb_movements(nb_trials))
    /\ IsSample(positions, 0..(nb_movements(nb_trials) - 1),
                Nb_right(nb_movements(nb_trials)))
    /\ idcs' = sample
    /\ idx_left' = NpDelete(sample, positions)
    /\ idx_right' = NpMasked(sample, positions)
    /\ pc' = "start_stimulation"
    /\ UNCHANGED <<diskVars, sessions, rows0, jitterVars, ret, paramVars, keyVars, pinVars, log, block,
                   trial, nb_blocks, nb_trials, i, trialVars, frameVars>>

(***************************************************************************)
(* show_task: the block and trial loops.                                   *)
(***************************************************************************)
\* lines 612-619: the position and reaction-time variables, then
\* send_trigger(pin=2)
StartStimulation ==
    /\ pc = "start_stimulation"
    /\ right_positions' = List(<<>>)
    /\ left_positions' = List(<<>>)
    /\ RT_end_right' = Num(0)
    /\ RT_end_left' = Num(0)
    /\ RT_start_right' = Num(0)
    /\ RT_start_left' = Num(0)
    /\ send_trigger(2, "ramp_up")
    /\ UNCHANGED <<diskVars, sessions, rows0, jitterVars, ret, paramVars, keyVars, log, loopVars,
                   RT_press, time, frameVars>>

\* line 622: TI_countdown(win, t=5); its result is not used
RampUp ==
    /\ pc = "ramp_up"
    /\ ti' = TIEnter(RampUpSeconds, "block")
    /\ pc' = "TI_countdown"
    /\ UNCHANGED <<diskVars, sessions, rows0, jitterVars, ret, paramVars, keyVars, pinVars, log,
                   loopVars, trialVars, wb, wj>>

\* x / d rounded to the nearest integer (no tie occurs for the numbers of
\* trials of the model)
RoundDiv(x, d) == (2 * x + d) \div (2 * d)
\* [round(i, 2) for i in np.linspace(lo, hi, n)], in 0.01 s
Linspace(lo, hi, n) ==
    [k \in 1..n |-> IF n = 1 THEN lo
                    ELSE RoundDiv(lo * (n - 1) + (hi - lo) * (k - 1), n - 1)]
\* np.random.permutation(arr) when it draws the order perm
Permuted(arr, perm) == [k \in 1..Len(arr) |-> arr[perm[k]]]

\* lines 629-640: a block begins (the result of the countdown before it is
\* dropped); perm1 and perm2 are the orders drawn for the jitters
BlockStart(perm1, perm2) ==
    /\ pc = "block"
    /\ log' = DictSet(log, "Block", Num(block + 1))
    /\ jitters_1' = Permuted(Linspace(Jitter1Lo, Jitter1Hi, nb_trials), perm1)
    /\ jitters_2' = Permuted(Linspace(Jitter2Lo, Jitter2Hi, nb_trials), perm2)
    /\ waited' = waited
    /\ send_trigger(9, "trial")
    /\ ti' = TIIdle
    /\ UNCHANGED <<diskVars, sessions, rows0, ret, paramVars, keyVars, loopVars, trialVars,
                   wb, wj>>

\* lines 642-661: a trial begins, waits 1 s and shows the press message
TrialStart(burst) ==
    /\ pc = "trial"
    /\ Fits(burst)
    /\ keys' = keys \o burst
    /\ escHit' = (escHit \/ HasEscape(burst))
    /\ RT_press' = 0
    /\ RT_end_right' = Num(0)
    /\ RT_end_left' = Num(0)
    /\ RT_start_right' = Num(0)
    /\ RT_start_left' = Num(0)
    /\ time' = Num(0)
    /\ log' = DictSet(log, "TrialStart", Str("t1"))
    /\ wb' = WBEnter(PressWindow, "after_press")
    /\ pc' = "wait_b_pressed"
    /\ waited' = 0
    /\ UNCHANGED <<diskVars, sessions, rows0, jitters_1, jitters_2, ret, paramVars, pinVars,
                   loopVars, right_positions, left_positions, wj, ti>>

\* lines 758-765
LogResponse(d) ==
    LET d1 == DictSet(d, "RT_press", Num(RT_press'))
        d2 == DictSet(d1, "RT_start_right", RT_start_right')
        d3 == DictSet(d2, "RT_start_left", RT_start_left')
        d4 == DictSet(d3, "RT_end_right", RT_end_right')
        d5 == DictSet(d4, "RT_end_left", RT_end_left')
        d6 == DictSet(d5, "right_positions", right_positions')
        d7 == DictSet(d6, "left_positions", left_positions')
    IN DictSet(d7, "time", time')

\* lines 768-775
LogNA(d) ==
    LET d1 == DictSet(d, "RT_press", NA)
        d2 == DictSet(d1, "RT_end_right", NA)
        d3 == DictSet(d2, "RT_end_left", NA)
        d4 == DictSet(d3, "RT_start_right", NA)
        d5 == DictSet(d4, "RT_start_left", NA)
        d6 == DictSet(d5, "right_positions", NA)
        d7 == DictSet(d6, "left_positions", NA)
    IN DictSet(d7, "time", NA)

\* if RT_press > 0.05: # We have a response
HaveResponse(rt) == rt > RespThreshold

\* lines 680-683: the pin pulsed after the press window
PressPin(rt) == IF rt = NoRespValue THEN 4 ELSE 2

\* lines 661-684 and 767-775: wait_b_pressed has returned
AfterPress ==
    /\ pc = "after_press"
    /\ RT_press' = wb.RT
    /\ wb' = WBIdle
    /\ IF wb.RT = -1
       THEN /\ Return("-1")
            /\ UNCHANGED <<pinVars, log>>
       ELSE IF HaveResponse(wb.RT)
       THEN /\ send_trigger(PressPin(wb.RT), "isi")
            /\ UNCHANGED <<ret, log>>
       ELSE /\ log' = LogNA(log)
            /\ pc' = "trial_end"
            /\ UNCHANGED <<ret, pinVars>>
    /\ UNCHANGED <<diskVars, sessions, rows0, jitterVars, paramVars, keyVars, loopVars, RT_start_right,
                   RT_start_left, RT_end_right, RT_end_left, right_positions,
                   left_positions, time, wj, ti>>

\* lines 686-765: the first jitter, then the joystick window of a movement
\* trial or, in any other trial, the two joystick buffers and the log fields
Isi(joy, burst) ==
    /\ pc = "isi"
    /\ Fits(burst)
    /\ keys' = keys \o burst
    /\ escHit' = (escHit \/ HasEscape(burst))
    /\ IF trial \in Range(idx_right)
       THEN /\ wj' = WJEnter(JoyWindow, "right", "after_joystick", joy)
            /\ pc' = "wait_joystick_pushed"
            /\ waited' = waited + jitters_1[trial + 1]
            /\ UNCHANGED <<log, trialVars>>
       ELSE IF trial \in Range(idx_left)
       THEN /\ wj' = WJEnter(JoyWindow, "left", "after_joystick", joy)
            /\ pc' = "wait_joystick_pushed"
            /\ waited' = waited + jitters_1[trial + 1]
            /\ UNCHANGED <<log, trialVars>>
       ELSE /\ UNCHANGED <<wj, trialVars>>
            /\ waited' = waited + jitters_1[trial + 1] + jitters_2[trial + 1]
            /\ log' = LogResponse(log)
            /\ pc' = "trial_end"
    /\ UNCHANGED <<diskVars, sessions, rows0, jitters_1, jitters_2, ret, paramVars, pinVars,
                   loopVars, wb, ti>>

\* lines 704-765: wait_joystick_pushed has returned; output['RT_end_right']
\* raises TypeError when output is -1
AfterJoystick(burst) ==
    /\ pc = "after_joystick"
    /\ Fits(burst)
    /\ IF wj.result = "abort"
       THEN /\ Return("TypeError")
            /\ UNCHANGED <<keyVars, log, trialVars, waited>>
       ELSE /\ RT_end_right' = wj.output.RT_end_right
            /\ RT_end_left' = wj.output.RT_end_left
            /\ right_positions' = wj.output.right_positions
            /\ left_positions' = wj.output.left_positions
            /\ RT_start_right' = wj.output.RT_start_right
            /\ RT_start_left' = wj.output.RT_start_left
            /\ time' = wj.output.time
            /\ RT_press' = RT_press
            /\ keys' = keys \o burst
            /\ escHit' = (escHit \/ HasEscape(burst))
            /\ waited' = waited + jitters_2[trial + 1]
            /\ log' = LogResponse(log)
            /\ pc' = "trial_end"
            /\ ret' = ret
    /\ wj' = WJIdle
    /\ UNCHANGED <<diskVars, sessions, rows0, jitters_1, jitters_2, paramVars, pinVars,
                   loopVars, wb, ti>>

\* lines 786-790
LogTrial(d) ==
    LET d1 == DictSet(d, "ID", DictGet(params, "ID"))
        d2 == DictSet(d1, "Session", DictGet(params, "Session"))
        d3 == DictSet(d2, "Run", DictGet(params, "Run"))
        d4 == DictSet(d3, "Trial", Num(trial + 1))
    IN DictSet(d4, "Block", Num(block + 1))

\* a variant that saves the trial data of practice sessions too
SaveTrialAlways(d) == AppendRow(run_path(params), d)
\* lines 793-805: the disk after the trial data d are saved
SaveTrial(d) ==
    IF DictGet(params, "Set") # Str("P")
    THEN AppendRow(run_path(params), d)
    ELSE files

\* lines 779-805: the keys are read, then the trial is logged
TrialEnd ==
    /\ pc = "trial_end"
    /\ keys' = <<>>
    /\ IF EscapeFirst(keys)
       THEN /\ Return("-1")
            /\ UNCHANGED <<files, log>>
       ELSE /\ log' = LogTrial(log)
            /\ files' = SaveTrial(log')
            /\ pc' = "trial_next"
            /\ ret' = ret
    /\ UNCHANGED <<pickles, sessions, rows0, jitterVars, paramVars, escHit, pinVars, loopVars, trialVars,
                   frameVars>>

\* a variant that ends a block without send_trigger(3)
TrialNextNoPulse ==
    /\ pc = "trial_next"
    /\ IF trial + 1 < nb_trials
       THEN /\ trial' = trial + 1
            /\ pc' = "trial"
       ELSE /\ trial' = 0
            /\ pc' = "block_end"
    /\ UNCHANGED <<diskVars, sessions, rows0, jitterVars, ret, paramVars, keyVars, pinVars,
                   log, block, nb_blocks, nb_trials, idcs, idx_right, idx_left, i,
                   trialVars, frameVars>>
\* for trial in range(nb_trials): the next trial, or lines 808-810, the end of
\* the block
TrialNext ==
    /\ pc = "trial_next"
    /\ IF trial + 1 < nb_trials
       THEN /\ trial' = trial + 1
            /\ pc' = "trial"
            /\ UNCHANGED pinVars
       ELSE /\ trial' = 0
            /\ send_trigger(3, "block_end")
    /\ UNCHANGED <<diskVars, sessions, rows0, jitterVars, ret, paramVars, keyVars, log, block, nb_blocks,
                   nb_trials, idcs, idx_right, idx_left, i, trialVars, frameVars>>

\* lines 811-824: the reaction-time message, then the break of a block that
\* is not the last
BlockEnd(burst) ==
    /\ pc = "block_end"
    /\ Fits(burst)
    /\ keys' = keys \o burst
    /\ escHit' = (escHit \/ HasEscape(burst))
    /\ IF block < nb_blocks - 1
       THEN /\ ti' = TIEnter(BreakSeconds, "block_next")
            /\ pc' = "TI_countdown"
       ELSE /\ ti' = ti
            /\ pc' = "block_next"
    /\ UNCHANGED <<diskVars, sessions, rows0, jitterVars, ret, paramVars, pinVars, log, loopVars,
                   trialVars, wb, wj>>

\* for block in range(nb_blocks): the next block, or lines 826-834, the end
\* of the task
BlockNext ==
    /\ pc = "block_next"
    /\ IF block + 1 < nb_blocks
       THEN /\ block' = block + 1
            /\ pc' = "block"
            /\ ret' = ret
       ELSE /\ block' = block
            /\ Return("0")
    /\ ti' = TIIdle
    /\ UNCHANGED <<diskVars, sessions, rows0, jitterVars, paramVars, keyVars, pinVars, log, trial,
                   nb_blocks, nb_trials, idcs, idx_right, idx_left, i, trialVars,
                   wb, wj>>

(***************************************************************************)
(* The program, run MaxSessions times on one disk.  In a session the       *)
(* joysticks rest when a joystick window opens and its frame flip returns  *)
(* as the window ends, so a push ends the window without further samples;  *)
(* one draw of the movement trials and of the order of the jitters is      *)
(* followed.  SpecWJ and SpecIdx below run wait_joystick_pushed and the    *)
(* designation under every reading, flip and draw.                         *)
(***************************************************************************)
\* the joystick readings <<right y, left y>> of a session: at rest, the right
\* one pushed, the left one pushed
JoyRest == <<0, 0>>
JoyInputs == {<<0, 0>>, <<-1000, 0>>, <<0, -1000>>}
\* the draws of movement trials of a session: the last trials of the block
SessionSamples ==
    {[n \in 1..nb_movements(nb_trials) |-> nb_trials - nb_movements(nb_trials) + n - 1]}
\* ... and the drawn positions of the right-joystick trials: the first ones
SessionPositions == {[n \in 1..Nb_right(nb_movements(nb_trials)) |-> n - 1]}
\* the order drawn for the jitters of a block: the reverse one
SessionPermutations == {[n \in 1..nb_trials |-> nb_trials + 1 - n]}

Next ==
    \/ StartProgram
    \/ \E s \in SettingsChoices : DialogOK(s)
    \/ DialogCancel
    \/ MainRoutine
    \/ \E key \in WaitKeysResults : Instructions(key)
    \/ \E key \in WaitKeysResults : PressTestMessage(key)
    \/ \E burst \in KeyBursts : PressTrial(burst)
    \/ PressTrialDone
    \/ \E key \in WaitKeysResults : JoyTestMessage(key)
    \/ \E burst \in KeyBursts : JoyTrial(JoyRest, burst)
    \/ JoyTrialDone
    \/ \E key \in WaitKeysResults : ReadyMessage(key)
    \/ Setup
    \/ \E sample \in SessionSamples, positions \in SessionPositions :
          Designate(sample, positions)
    \/ StartStimulation
    \/ \E burst \in KeyBursts : SendTriggerLow(burst)
    \/ RampUp
    \/ \E burst \in KeyBursts : TI_Tick(burst)
    \/ \E burst \in KeyBursts : TI_Expire(burst)
    \/ \E perm1 \in SessionPermutations, perm2 \in SessionPermutations :
          BlockStart(perm1, perm2)
    \/ \E burst \in KeyBursts : TrialStart(burst)
    \/ \E e \in PollInstants(wb.duration), button \in BOOLEAN, burst \in KeyBursts :
          WB_Poll(e, button, burst)
    \/ WB_Timeout
    \/ AfterPress
    \/ \E burst \in KeyBursts : Isi(JoyRest, burst)
    \/ \E e \in JoyPollInstants(wj.duration), joy \in JoyInputs, burst \in KeyBursts :
          WJ_Poll(e, joy, burst)
    \/ WJ_Pushed
    \/ WJ_Return
    \/ WJ_Timeout
    \/ \E burst \in KeyBursts : AfterJoystick(burst)
    \/ TrialEnd
    \/ TrialNext
    \/ \E burst \in KeyBursts : BlockEnd(burst)
    \/ BlockNext
    \/ Close

Spec == Init /\ [][Next]_vars

(***************************************************************************)
(* One standard session of one block of four trials, one of which is a     *)
(* joystick-movement trial: any draw of the movement trial, the frame      *)
(* flips and joystick readings of a session.  The run stops when show_task *)
(* has ended.                                                              *)
(***************************************************************************)
TaskSettings == {<<1, 1, 1, 1, 4, "Standard">>}

NextTask ==
    \/ StartProgram
    \/ \E s \in TaskSettings : DialogOK(s)
    \/ MainRoutine
    \/ \E key \in WaitKeysResults : Instructions(key)
    \/ Setup
    \/ \E sample \in RandomSample(0..(nb_trials - 1), nb_movements(nb_trials)),
          positions \in RandomSample(0..(nb_movements(nb_trials) - 1),
                                     Nb_right(nb_movements(nb_trials))) :
          Designate(sample, positions)
    \/ StartStimulation
    \/ \E burst \in KeyBursts : SendTriggerLow(burst)
    \/ RampUp
    \/ \E burst \in KeyBursts : TI_Tick(burst)
    \/ \E burst \in KeyBursts : TI_Expire(burst)
    \/ \E perm1 \in SessionPermutations, perm2 \in SessionPermutations :
          BlockStart(perm1, perm2)
    \/ \E burst \in KeyBursts : TrialStart(burst)
    \/ \E e \in PollInstants(wb.duration), button \in BOOLEAN, burst \in KeyBursts :
          WB_Poll(e, button, burst)
    \/ WB_Timeout
    \/ AfterPress
    \/ \E burst \in KeyBursts : Isi(JoyRest, burst)
    \/ \E e \in JoyPollInstants(wj.duration), joy \in JoyInputs, burst \in KeyBursts :
          WJ_Poll(e, joy, burst)
    \/ WJ_Pushed
    \/ WJ_Return
    \/ WJ_Timeout
    \/ \E burst \in KeyBursts : AfterJoystick(burst)
    \/ TrialEnd
    \/ TrialNext
    \/ \E burst \in KeyBursts : BlockEnd(burst)
    \/ BlockNext

SpecTask == Init /\ [][NextTask]_vars

(***************************************************************************)
(* wait_b_pressed called on its own: any countdown up to MaxDuration, any  *)
(* keys pending at the call, the flips returning at any later tick (also   *)
(* after the countdown has expired), any button state and keys.            *)
(***************************************************************************)
PendingAtCall == {<<>>, <<"escape">>, <<"space">>, <<"space", "escape">>}

InitWB ==
    /\ MachineInit
    /\ ProcessIdle
    /\ escHit = FALSE
    /\ nb_trials = 0
    /\ wj = WJIdle
    /\ pc = "wait_b_pressed"
    /\ keys \in PendingAtCall
    /\ wb \in {WBEnter(duration, "returned") : duration \in 1..MaxDuration}

NextWB ==
    \/ \E e \in 1..(wb.duration + FlipOvershoot), button \in BOOLEAN,
          burst \in KeyBursts : WB_Poll(e, button, burst)
    \/ WB_Timeout

SpecWB == InitWB /\ [][NextWB]_vars

(***************************************************************************)
(* wait_joystick_pushed called on its own: either cue, any countdown up to *)
(* MaxDuration, any joystick readings at the call and at every sample.     *)
(***************************************************************************)
\* at rest, right pushed, left pushed, both pushed, right moved half way,
\* left moved half way
CallJoyInputs ==
    {<<0, 0>>, <<-1000, 0>>, <<0, -1000>>, <<-1000, -1000>>, <<-500, 0>>, <<0, -500>>}

InitWJ ==
    /\ MachineInit
    /\ ProcessIdle
    /\ escHit = FALSE
    /\ nb_trials = 0
    /\ wb = WBIdle
    /\ pc = "wait_joystick_pushed"
    /\ keys \in PendingAtCall
    /\ wj \in {WJEnter(duration, correct_rect, "returned", joy) :
                  duration \in 1..MaxDuration, correct_rect \in {"right", "left"},
                  joy \in CallJoyInputs}

NextWJ ==
    \/ \E e \in 1..(wj.duration + FlipOvershoot), joy \in CallJoyInputs,
          burst \in KeyBursts : WJ_Poll(e, joy, burst)
    \/ \E burst \in KeyBursts : SendTriggerLow(burst)
    \/ WJ_Pushed
    \/ \E e \in 1..(wj.duration + FlipOvershoot), joy \in CallJoyInputs,
          burst \in KeyBursts : WJ_Inner(e, joy, burst)
    \/ WJ_Return
    \/ WJ_Timeout

SpecWJ == InitWJ /\ [][NextWJ]_vars

(***************************************************************************)
(* TI_countdown called on its own: any countdown up to MaxSeconds, any     *)
(* keys pending at the call and pressed during each second.                *)
(***************************************************************************)
InitTI ==
    /\ MachineInit
    /\ CallerIdle
    /\ escHit = FALSE
    /\ nb_trials = 0
    /\ wb = WBIdle
    /\ wj = WJIdle
    /\ pc = "TI_countdown"
    /\ keys \in PendingAtCall
    /\ ti \in {TIEnter(t, "returned") : t \in 1..MaxSeconds}

NextTI ==
    \/ \E burst \in KeyBursts : TI_Tick(burst)
    \/ \E burst \in KeyBursts : TI_Expire(burst)

SpecTI == InitTI /\ [][NextTI]_vars

(***************************************************************************)
(* The designation of the movement trials on its own: any number of trials *)
(* up to MaxIdxTrials, any draws of random.sample.                         *)
(***************************************************************************)
InitIdx ==
    /\ MachineInit
    /\ ProcessIdle
    /\ keys = <<>>
    /\ escHit = FALSE
    /\ wb = WBIdle
    /\ wj = WJIdle
    /\ pc = "designate"
    /\ nb_trials \in 0..MaxIdxTrials

NextIdx ==
    /\ pc = "designate"
    /\ \E sample \in RandomSample(0..(nb_trials - 1), nb_movements(nb_trials)),
          positions \in RandomSample(0..(nb_movements(nb_trials) - 1),
                                     Nb_right(nb_movements(nb_trials))) :
          Designate(sample, positions)

SpecIdx == InitIdx /\ [][NextIdx]_vars

(***************************************************************************)
(* Properties of the trial log.                                            *)
(***************************************************************************)
RunPaths(f) == {path \in DOMAIN f : path[2] = "runs"}
RowsOf(f, path) == {n \in 1..Len(f[path]) : f[path][n].kind = "row"}
LastLine(f, path) == f[path][Len(f[path])]
\* the rows that the session in progress has appended to its run file
SessionRows == RowCountIn(files, run_path(params)) - rows0
\* where control is inside a trial of the block loop of a non-practice session
InTrialPcs == {"trial", "wait_b_pressed", "after_press", "isi", "wait_joystick_pushed",
               "wj_pushed", "wj_inner", "after_joystick", "trial_end"}
\* the step in which a trial finishes without an abort
TrialFinishes == pc = "trial_end" /\ pc' = "trial_next"

C1Progress ==
    /\ (pc \in InTrialPcs /\ ~Practice) => SessionRows = block * nb_trials + trial
    /\ (pc = "trial_next" /\ ~Practice) => SessionRows = block * nb_trials + trial + 1
    /\ (pc = "ended" /\ Practice) => SessionRows = 0
    /\ (pc = "ended" /\ ret = "0" /\ ~Practice) =>
          SessionRows = DictGet(params, "NbBlocks").num * DictGet(params, "NbTrials").num

C1Step ==
    /\ DOMAIN files \subseteq DOMAIN files'
    /\ \A path \in RunPaths(files') :
          RowCountIn(files', path) =
             RowCountIn(files, path) +
                (IF TrialFinishes /\ ~Practice /\ path = run_path(params) THEN 1 ELSE 0)
    /\ (TrialFinishes /\ ~Practice) =>
          LET line == LastLine(files', run_path(params))
          IN /\ line.kind = "row"
             /\ Field(line, "Block") = Num(block + 1)
             /\ Field(line, "Trial") = Num(trial + 1)
    /\ C1Progress'

\* C1: in a non-practice session every trial that finishes without an abort
\* appends exactly one row, labelled with its block and trial, to the run
\* file, so the rows of the session count the trials finished so far in
\* (block, trial) order and a completed session has appended NbBlocks x
\* NbTrials rows; no other step, and no step of a practice session, appends a
\* trial row.
C1_OneRowPerFinishedTrial == [][C1Step]_vars

\* a two-trial session has run to completion on a run file that already held
\* rows of an earlier session
C1_Witness ==
    /\ pc = "ended"
    /\ ret = "0"
    /\ ~Practice
    /\ rows0 > 0
    /\ SessionRows = 2

ResponseFields == {"RT_press", "RT_start_right", "RT_start_left", "RT_end_right",
                   "RT_end_left", "right_positions", "left_positions", "time"}

C2Step ==
    /\ (pc = "after_press" /\ wb.outcome = "timeout" /\ ~Practice) =>
          /\ pc' = "trial_end"
          /\ \A k \in ResponseFields : HasKey(log', k) /\ DictGet(log', k) = NA
    /\ (TrialFinishes /\ ~Practice) =>
          \A k \in ResponseFields :
             Field(LastLine(files', run_path(params)), k) = DictGet(log, k)

C3_EscapeReturnsMinusOne == (pc = "ended" /\ escHit) => ret = "-1"

\* the trial in progress has a joystick-movement window
MovementTrial == trial \in Range(idx_right) \cup Range(idx_left)

C13Step ==
    (TrialFinishes /\ ~Practice /\ ~MovementTrial) =>
       LET line == LastLine(files', run_path(params))
       IN /\ Field(line, "right_positions") \in {NA, List(<<>>)}
          /\ Field(line, "left_positions") \in {NA, List(<<>>)}

\* C13: the row of a trial that has no joystick-movement window holds no
\* joystick samples (its right_positions and left_positions are empty or
\* "NA"), so it never repeats the samples of an earlier trial.
C13_NoStaleSamples == [][C13Step]_vars

(***************************************************************************)
(* Properties of wait_b_pressed, over the polls of a call.                 *)
(***************************************************************************)
\* a poll that saw neither the button down nor escape as first pending key
QuietPoll(p) == ~p.button /\ ~(Len(p.key) > 0 /\ p.key[1] = "escape")

\* the contract of a returned call whose elapsed times lie in Elapsed
WBContract(Elapsed) ==
    LET P == wb.polls
        n == Len(P)
    IN /\ n >= 1
       /\ \A k \in 1..(n - 1) : QuietPoll(P[k]) /\ P[k].elapsed < wb.duration
       /\ \/ /\ P[n].button
             /\ wb.RT = P[n].elapsed
             /\ wb.RT \in Elapsed
          \/ /\ ~P[n].button
             /\ ~QuietPoll(P[n])
             /\ wb.RT = -1
          \/ /\ QuietPoll(P[n])
             /\ P[n].elapsed >= wb.duration
             /\ wb.RT = wb.duration

\* C4 as stated: a returned call has returned the elapsed time, in
\* [0, duration], of the first poll with the button down, or -1 at the first
\* poll with the button up and escape the first pending key, or the duration
\* when the countdown expired with neither; the button wins over escape.
C4_ElapsedWithinDuration == pc = "returned" => WBContract(0..wb.duration)

\* C4: a returned call has returned the elapsed time (at least 0, and above
\* the duration when the last flip returned after the countdown expired) of
\* the first poll with the button down, or -1 at the first poll with the
\* button up and escape the first pending key, or the duration when the
\* countdown expired with neither; the button wins over escape.
C4_ThreeOutcomes == pc = "returned" => WBContract(Nat)

\* the button is down, with escape pending, at a poll whose flip returned
\* after the countdown had expired
C4_Witness ==
    /\ pc = "returned"
    /\ Len(wb.polls) >= 1
    /\ wb.polls[Len(wb.polls)].button
    /\ wb.polls[Len(wb.polls)].key = <<"escape">>
    /\ wb.RT > wb.duration

(***************************************************************************)
(* Properties of wait_joystick_pushed.                                     *)
(***************************************************************************)
\* C5: a call during whose polls escape was pressed returns -1.
C5_EscapeAborts == (pc = "returned" /\ wj.escaped) => wj.result = "abort"

\* the y-axis value of the last sample of a list of [x, y] samples
LastY(samples) == samples[Len(samples)][2]
Crossed(y) == y < -900
\* no sample of either joystick is below the threshold
NoneCrossed(f) ==
    /\ \A n \in 1..Len(f.right_positions) : ~Crossed(f.right_positions[n][2])
    /\ \A n \in 1..Len(f.left_positions) : ~Crossed(f.left_positions[n][2])
\* the pin of the docstring's table for a poll that read yr and yl
ExpectedPin(cued, yr, yl) ==
    IF Crossed(yr) THEN (IF cued = "right" THEN 7 ELSE 8)
    ELSE IF cued = "left" THEN 5 ELSE 6

C12Step ==
    /\ (pc = "wait_joystick_pushed" /\ Len(wj'.time) > Len(wj.time)) =>
          LET yr == LastY(wj'.right_positions)
              yl == LastY(wj'.left_positions)
          IN IF Crossed(yr) \/ Crossed(yl)
             THEN /\ NoneCrossed(wj)
                  /\ pc' = "send_trigger"
                  /\ pins' = [pins EXCEPT ![ExpectedPin(wj.correct_rect, yr, yl)] = 1]
             ELSE pins' = pins /\ pc' \in {"wait_joystick_pushed", "returned"}
    /\ (pc = "wait_joystick_pushed" /\ Len(wj'.time) = Len(wj.time)) => pins' = pins
    /\ pc = "send_trigger" => pins' = [pins EXCEPT ![trig_pin] = 0] /\ pc' = "wj_pushed"
    /\ pc \in {"wj_pushed", "wj_inner"} =>
          pins' = pins /\ pc' \in {"wj_inner", "returned"}
    /\ (pc' = "returned" /\ pc = "wait_joystick_pushed") => NoneCrossed(wj')

\* C12: in a call, the first poll that reads a joystick below -0.9 raises one
\* pin (7: right crossed, cue right; 8: right crossed, cue left; 5: only left
\* crossed, cue left; 6: only left crossed, cue right), the pulse ends and no
\* poll of the outer loop follows it, so at most one pin is pulsed; every
\* other step of the call, and its return on timeout or abort (no sample
\* below -0.9), leaves the pins alone.
C12_PinByFirstPush == [][C12Step]_vars

\* both joysticks cross in the same poll with the left side cued: the pulse
\* on pin 8 is high
C12_Witness ==
    /\ pc = "send_trigger"
    /\ wj.correct_rect = "left"
    /\ Crossed(LastY(wj.right_positions))
    /\ Crossed(LastY(wj.left_positions))
    /\ pins[8] = 1

\* C16: in a record returned by wait_joystick_pushed, right_positions,
\* left_positions and time have the same length, the number of joystick
\* polls made during the call.
C16_OneSamplePerPoll ==
    (pc = "returned" /\ wj.result = "output") =>
       /\ Len(wj.output.right_positions.list) = wj.polls
       /\ Len(wj.output.left_positions.list) = wj.polls
       /\ Len(wj.output.time.list) = wj.polls

\* the reaction times of the cued and of the other side in the output out
StartOf(out, side) == IF side = "right" THEN out.RT_start_right ELSE out.RT_start_left
EndOf(out, side) == IF side = "right" THEN out.RT_end_right ELSE out.RT_end_left
Other(side) == IF side = "right" THEN "left" ELSE "right"
\* the y-axis values of a joystick read so far
YOf(f, side) ==
    IF side = "right" THEN [n \in 1..Len(f.right_positions) |-> f.right_positions[n][2]]
    ELSE [n \in 1..Len(f.left_positions) |-> f.left_positions[n][2]]
LastValueOf(f, side) == IF side = "right" THEN f.last_value_right ELSE f.last_value_left

C18Record ==
    pc \in {"wait_joystick_pushed", "send_trigger", "wj_pushed", "wj_inner", "returned"} =>
       LET cued == wj.correct_rect
           start == StartOf(wj.output, cued)
           end == EndOf(wj.output, cued)
       IN /\ StartOf(wj.output, Other(cued)) = NoneV
          /\ EndOf(wj.output, Other(cued)) = NoneV
          /\ (start # NoneV /\ end # NoneV) => start.num <= end.num
          /\ (start # NoneV /\ wj.RT # NoneV) => start.num <= wj.RT.num

C18Step ==
    /\ (pc = "wait_joystick_pushed" /\ Len(wj'.time) > Len(wj.time)) =>
          LET cued == wj.correct_rect
              n == Len(wj'.time)
              y == YOf(wj', cued)
              previous == IF n = 1 THEN LastValueOf(wj, cued) ELSE y[n - 1]
              differs == y[n] - previous > 5 \/ previous - y[n] > 5
              start == StartOf(wj.output, cued)
          IN StartOf(wj'.output, cued) =
                IF start = NoneV /\ differs
                THEN Num(wj.duration - wj'.time[n])
                ELSE start
    /\ pc \in {"send_trigger", "wj_pushed", "wj_inner"} =>
          StartOf(wj'.output, wj.correct_rect) = StartOf(wj.output, wj.correct_rect)
    /\ C18Record'

\* C18: in a call, the reaction times of the side that is not cued stay
\* None; RT_start of the cued side is set at the first poll of the outer loop
\* whose y-axis reading differs by more than 0.005 from the one before (the
\* reading at the call, for the first poll) and never changes afterwards;
\* when RT_start and RT_end of the cued side are both set, RT_start <= RT_end.
C18_CuedSideTimes == [][C18Step]_vars

\* the cued left joystick moved half way in one poll and crossed the
\* threshold in a later one: both reaction times are set and differ
C18_Witness ==
    /\ pc = "returned"
    /\ wj.correct_rect = "left"
    /\ wj.output.RT_start_left # NoneV
    /\ wj.output.RT_end_left # NoneV
    /\ wj.output.RT_start_left.num < wj.output.RT_end_left.num

(***************************************************************************)
(* Properties of TI_countdown.                                             *)
(***************************************************************************)
\* C11: a call during which escape was pressed has returned -1 (and not None
\* at the expiry of the countdown).
C11_EscapeEndsCountdown == (pc = "returned" /\ ti.escaped) => ti.result = "-1"

(***************************************************************************)
(* Properties of the trigger pins.                                         *)
(***************************************************************************)
AllLow == [p \in Pins |-> 0]
C6Pins ==
    IF pc = "send_trigger"
    THEN trig_pin \in Pins /\ pins = [AllLow EXCEPT ![trig_pin] = 1]
    ELSE pins = AllLow

C6Step ==
    /\ IF pc # "send_trigger" /\ pc' = "send_trigger"
       THEN pins' = [pins EXCEPT ![trig_pin'] = 1]
       ELSE IF pc = "send_trigger" /\ pc' # "send_trigger"
       THEN pins' = [pins EXCEPT ![trig_pin] = 0]
       ELSE pins' = pins
    /\ C6Pins'

\* C6: a call of send_trigger raises its pin and no other, the return lowers
\* that pin and no other, no other step changes a pin; so all pins are low
\* whenever control is outside send_trigger, and inside it the called pin is
\* the only one high.
C6_OnePinPulsed == [][C6Step]_vars

\* the pulse of a correct push of the right joystick is high
C6_Witness == pc = "send_trigger" /\ trig_pin = 7 /\ pins[7] = 1

\* where control is inside the trial loop of a block, and after it
BlockTrialPcs == {"trial", "after_press", "isi", "after_joystick", "trial_end", "trial_next"}
BlockDonePcs == {"block_end", "block_next"}

\* C15: the pulses of a program run on pins 9 and 3 alternate, starting with
\* 9; inside the trials of block number b (from 0) there have been b + 1
\* pulses on pin 9 and b on pin 3, after the block b + 1 on each; a session
\* that has returned 0 has sent NbBlocks pulses (one in practice mode) on
\* each, and one that has aborted has sent none or lacks the pin-3 pulse of
\* the block it was in.
C15_BlockPulsesNested ==
    /\ \A n \in 1..Len(block_pulses) : block_pulses[n] = IF n % 2 = 1 THEN 9 ELSE 3
    /\ pc \in BlockTrialPcs => Len(block_pulses) = 2 * block + 1
    /\ pc \in BlockDonePcs => Len(block_pulses) = 2 * block + 2
    /\ (pc = "ended" /\ ret = "0") =>
          Len(block_pulses) =
             2 * (IF Practice THEN 1 ELSE DictGet(params, "NbBlocks").num)
    /\ (pc = "ended" /\ ret # "0") => Len(block_pulses) \in {0, 2 * block + 1}

\* a session has aborted inside its second block
C15_Witness ==
    /\ pc = "ended"
    /\ ret = "-1"
    /\ block_pulses = <<9, 3, 9>>

C14Step ==
    (pc = "after_press" /\ pc' = "send_trigger") =>
       /\ wb.outcome = "timeout" => pins' = [pins EXCEPT ![4] = 1]
       /\ wb.outcome = "pressed" => pins' = [pins EXCEPT ![2] = 1]

\* C14: after the press window of a trial that enters the response branch,
\* pin 4 and no other is raised when wait_b_pressed timed out, pin 2 and no
\* other when the button was pressed.
C14_NoResponsePin == [][C14Step]_vars

(***************************************************************************)
(* Properties of the jittered delays.                                      *)
(***************************************************************************)
Occurrences(seq, v) == Cardinality({n \in 1..Len(seq) : seq[n] = v})
SameValues(a, b) ==
    /\ Len(a) = Len(b)
    /\ \A n \in 1..Len(a) : Occurrences(a, a[n]) = Occurrences(b, a[n])

\* C17: when a trial of a block has finished, the jitters of the block are
\* the nb_trials evenly spaced values of [0.65, 0.85] and of [1, 2] in some
\* order, and the trial has waited exactly its own entry of each list (so
\* that every block waits the same total).
C17_EveryTrialWaitsItsJitters ==
    pc = "trial_next" =>
       /\ SameValues(jitters_1, Linspace(Jitter1Lo, Jitter1Hi, nb_trials))
       /\ SameValues(jitters_2, Linspace(Jitter2Lo, Jitter2Hi, nb_trials))
       /\ waited = jitters_1[trial + 1] + jitters_2[trial + 1]

(***************************************************************************)
(* Properties of the log files.                                            *)
(***************************************************************************)
OneHeader ==
    \A path \in DOMAIN files :
       /\ Len(files[path]) >= 2
       /\ files[path][1].kind = "header"
       /\ \A n \in 2..Len(files[path]) : files[path][n].kind = "row"

C7Step ==
    /\ DOMAIN files \subseteq DOMAIN files'
    /\ \A path \in DOMAIN files' :
          IF path \in DOMAIN files
          THEN \/ files'[path] = files[path]
               \/ /\ Len(files'[path]) = Len(files[path]) + 1
                  /\ SubSeq(files'[path], 1, Len(files[path])) = files[path]
                  /\ LastLine(files', path).kind = "row"
          ELSE /\ Len(files'[path]) = 2
               /\ files'[path][1].kind = "header"
               /\ files'[path][2].kind = "row"
    /\ OneHeader'

\* C7: a write to a log file (parameter log or trial log) that did not exist
\* creates it with a header line and a row, a write to one that exists
\* appends a row and no header; so every log file holds exactly one header
\* line, its first line.
C7_HeaderOnCreation == [][C7Step]_vars

\* a parameter log and a trial log have each been appended to by a second
\* session
C7_Witness ==
    /\ sessions = 2
    /\ \E path \in DOMAIN files : path[2] = "task_params" /\ Len(files[path]) >= 3
    /\ \E path \in RunPaths(files) : rows0 > 0 /\ RowCountIn(files, path) > rows0

\* C8 as stated: no trial-log file holds rows of two different runs.
C8_OneRunPerFile ==
    \A path \in RunPaths(files) :
       \A a, b \in RowsOf(files, path) :
          Field(files[path][a], "Run") = Field(files[path][b], "Run")

\* C8: the trial log is one file per participant: every row of a trial-log
\* file carries the participant ID the file is named after, whatever its
\* run.
C8_OneFilePerParticipant ==
    \A path \in RunPaths(files) :
       \A a \in RowsOf(files, path) : Field(files[path][a], "ID") = Num(path[1])

\* a trial-log file holds rows of two runs of its participant
C8_Witness ==
    \E path \in RunPaths(files) :
       \E a, b \in RowsOf(files, path) :
          /\ Field(files[path][a], "Run") # Field(files[path][b], "Run")
          /\ Field(files[path][a], "ID") = Field(files[path][b], "ID")

\* C19: every row of a trial-log file was written with its fields in the
\* column order of the file's header.
C19_RowsInHeaderOrder ==
    \A path \in RunPaths(files) :
       \A n \in RowsOf(files, path) : files[path][n].cols = files[path][1].cols

\* C9: the settings that get_parameters has loaded for the dialog are the
\* ones the last confirmed dialog saved, and the defaults only if none was
\* saved.
C9_RoundTrip ==
    pc = "dialog" =>
       param_settings = IF SavedPickle \in DOMAIN pickles
                        THEN pickles[SavedPickle]
                        ELSE DefaultSettings

(***************************************************************************)
(* Properties of the designation of the movement trials.                   *)
(***************************************************************************)
\* C10: once the trials are designated, idcs holds floor(0.3 n) distinct
\* trial indices of 0..n-1, idx_right holds floor(m/2) of them, idx_left the
\* others, no index is in both and together they are the designated ones.
C10_Designation ==
    pc = "start_stimulation" =>
       LET n == nb_trials
           m == Len(idcs)
           r == Len(idx_right)
       IN /\ 10 * m <= 3 * n
          /\ 3 * n < 10 * (m + 1)
          /\ Range(idcs) \subseteq 0..(n - 1)
          /\ Cardinality(Range(idcs)) = m
          /\ 2 * r <= m
          /\ m < 2 * (r + 1)
          /\ Cardinality(Range(idx_right)) = r
          /\ Len(idx_left) = m - r
          /\ Cardinality(Range(idx_left)) = m - r
          /\ Range(idx_right) \cap Range(idx_left) = {}
          /\ Range(idx_right) \cup Range(idx_left) = Range(idcs)

\* four trials are designated, two on each side
C10_Witness ==
    /\ pc = "start_stimulation"
    /\ Len(idx_right) = 2
    /\ Len(idx_left) = 2

====
